---- MODULE Spec2Model ----
(***************************************************************************)
(* A model of the image annotation tool (image_annotation_tool.py):        *)
(* AnnotationManager (XML records), ImageCanvas (mouse / keyboard          *)
(* handlers, coordinate transforms) and MainWindow (import, navigation,    *)
(* finish, close).  Every handler is a function from a program state (a    *)
(* record with one field per attribute) to the state it leaves behind; an  *)
(* action applies one handler to the current values of the variables.      *)
(***************************************************************************)
EXTENDS Integers, Sequences, FiniteSets, TLC

VARIABLES
    app,                  \* "running" | "aborted" (qFatal after an exception in a handler) | "closed"
    focus,                \* widget holding the keyboard focus: "canvas" | "other"
    message,              \* QMessageBox raised by the most recent input handler ("" when none)
    annotation_manager,   \* MainWindow.annotation_manager: "None" or the folder whose xml/ it writes
    categories,           \* MainWindow.categories
    image_list,           \* MainWindow.image_list: sequence of paths
    current_image_index,  \* MainWindow.current_image_index
    previous_image_path,  \* MainWindow.previous_image_path (NoPath: attribute absent)
    combo_items,          \* items of MainWindow.category_combo
    combo_text,           \* current text of MainWindow.category_combo
    prev_enabled,         \* prev_btn.isEnabled()
    next_enabled,         \* next_btn.isEnabled()
    finish_visible,       \* finish_btn.isVisible()
    pixmap,               \* ImageCanvas.pixmap
    scaled_pixmap,        \* ImageCanvas.scaled_pixmap (has = FALSE: attribute absent)
    size,                 \* ImageCanvas.size(): <<width, height>> of the widget
    annotations,          \* ImageCanvas.annotations
    drawing,              \* ImageCanvas.drawing
    start_point,          \* ImageCanvas.start_point
    selected_category,    \* ImageCanvas.selected_category
    category_colors,      \* MainWindow.color_manager.category_colors
    xml,                  \* the files <folder>/xml/<stem>.xml on disk
    bookmark              \* history: an image that was left, and what the canvas held then

vars == << app, focus, message, annotation_manager, categories, image_list,
           current_image_index, previous_image_path, combo_items, combo_text,
           prev_enabled, next_enabled, finish_visible, pixmap, scaled_pixmap,
           size, annotations, drawing, start_point, selected_category,
           category_colors, xml, bookmark >>

----------------------------------------------------------------------------
(* Bounds and program constants *)

\* most annotations on the canvas at any time (drawing beyond it is not explored)
MaxAnnotations == 2

\* most categories the colour manager is asked about (the pool holds 20 colours)
MaxCategories == 22

\* mouseReleaseEvent: rect.width() > 10 and rect.height() > 10
MinBoxSize == 10

Placeholder == "(select)"   \* the combo entry "(請選擇類別)"

\* the texts of the message boxes (QMessageBox), abbreviated
MsgNone == ""
MsgSelectCategory == "warn: select a category first"
MsgNoLabel == "error: label.txt not found"
MsgNoImg == "error: img folder not found"
MsgLabelUnreadable == "error: reading label.txt failed"
MsgNoImages == "error: no image files in img"
MsgImported == "info: import succeeded"
MsgFinished == "info: annotation finished"

----------------------------------------------------------------------------
(* The folders the operator can choose in the file dialog.  Their label.txt *)
(* and img/ contents are fixed; their xml/ records are the variable xml.    *)

SessionFolders == {"F", "E", "N", "M", "U"}
CoordFolders == {"S1", "S2", "S3", "S4", "S5"}
Folders == SessionFolders \cup CoordFolders

\* label_file.exists()
HasLabel(folder) == folder # "N"

\* img_folder.exists()
HasImg(folder) == folder # "M"

\* open(label_file) and its decoding succeed
LabelReadable(folder) == folder # "U"

\* the non-blank, stripped lines of label.txt
LabelLines(folder) ==
    CASE folder = "F" -> << "cat", "dog" >>
      [] folder = "E" -> << "cat" >>
      [] folder \in CoordFolders -> << "cat" >>
      [] OTHER -> << >>

\* the entries of <folder>/img (img_folder.iterdir(), in no particular order)
ImgDir(folder) ==
    CASE folder = "F" -> {"a.jpg", "a.png", "d.JPG", "notes.txt"}
      [] folder = "E" -> {"notes.txt"}
      [] folder \in CoordFolders -> {"a.jpg"}
      [] OTHER -> {}

\* Path(name).stem
Stem(name) ==
    CASE name \in {"a.jpg", "a.png"} -> "a"
      [] name = "d.JPG" -> "d"
      [] name = "notes.txt" -> "notes"
      [] OTHER -> ""

Stems == {"a", "d"}

\* Path(name).suffix.lower()
SuffixLower(name) ==
    CASE name \in {"a.jpg", "d.JPG"} -> ".jpg"
      [] name = "a.png" -> ".png"
      [] name = "notes.txt" -> ".txt"
      [] OTHER -> ""

\* position of a name in the order of Path.__lt__
NameRank(name) ==
    CASE name = "a.jpg" -> 1
      [] name = "a.png" -> 2
      [] name = "d.JPG" -> 3
      [] OTHER -> 4

image_extensions == {".jpg", ".jpeg", ".png", ".bmp", ".tiff"}

\* what QPixmap(path) decodes: <<width, height>>, <<0, 0>> for a file that is
\* no readable image (the null pixmap)
ImageFileSize(folder, name) ==
    CASE folder = "F" /\ name = "d.JPG" -> << 0, 0 >>
      [] folder = "S1" -> << 7, 6 >>
      [] folder = "S2" -> << 14, 13 >>
      [] folder = "S3" -> << 28, 26 >>
      [] folder = "S4" -> << 30, 12 >>
      [] folder = "S5" -> << 5, 13 >>
      [] OTHER -> << 7, 6 >>

Path(folder, name) == [folder |-> folder, name |-> name]
NoPath == [folder |-> "", name |-> ""]

----------------------------------------------------------------------------
(* ColorManager.  A colour name is the sequence of the characters of the    *)
(* Python string, so that "#ff0000" and "#FF0000" are different names of    *)
(* one colour.                                                              *)

\* ColorManager.__init__: self.color_pool
color_pool ==
    <<
       << "#", "3", "4", "9", "8", "D", "B" >>,
       << "#", "2", "E", "C", "C", "7", "1" >>,
       << "#", "F", "3", "9", "C", "1", "2" >>,
       << "#", "9", "B", "5", "9", "B", "6" >>,
       << "#", "E", "7", "4", "C", "3", "C" >>,
       << "#", "1", "A", "B", "C", "9", "C" >>,
       << "#", "3", "4", "4", "9", "5", "E" >>,
       << "#", "F", "1", "C", "4", "0", "F" >>,
       << "#", "E", "6", "7", "E", "2", "2" >>,
       << "#", "9", "5", "A", "5", "A", "6" >>,
       << "#", "8", "E", "4", "4", "A", "D" >>,
       << "#", "2", "7", "A", "E", "6", "0" >>,
       << "#", "2", "9", "8", "0", "B", "9" >>,
       << "#", "D", "3", "5", "4", "0", "0" >>,
       << "#", "7", "F", "8", "C", "8", "D" >>,
       << "#", "1", "6", "A", "0", "8", "5" >>,
       << "#", "C", "0", "3", "9", "2", "B" >>,
       << "#", "8", "F", "4", "4", "A", "D" >>,
       << "#", "2", "C", "3", "E", "5", "0" >>,
       << "#", "F", "4", "D", "0", "3", "F" >> >>

\* ColorManager.__init__: self.category_colors = {} (entries in insertion order)
NoCategoryColors == << >>

\* ColorManager.get_default_color
get_default_color == << "#", "F", "F", "0", "0", "0", "0" >>

\* the digits that format(n, "x") writes
LowerHexDigits ==
    << "0", "1", "2", "3", "4", "5", "6", "7", "8", "9", "a", "b", "c", "d", "e", "f" >>

Pow16(k) == IF k = 0 THEN 1 ELSE IF k = 1 THEN 16 ELSE IF k = 2 THEN 256
            ELSE IF k = 3 THEN 4096 ELSE IF k = 4 THEN 65536 ELSE 1048576

\* "#{:06x}".format(n) for 0 <= n <= 0xFFFFFF
Format06x(n) ==
    << "#" >> \o [i \in 1..6 |-> LowerHexDigits[((n \div Pow16(6 - i)) % 16) + 1]]

\* the value of one hexadecimal digit as QColor reads it, in either case
HexDigitValue(ch) ==
    CASE ch \in {"a", "A"} -> 10
      [] ch \in {"b", "B"} -> 11
      [] ch \in {"c", "C"} -> 12
      [] ch \in {"d", "D"} -> 13
      [] ch \in {"e", "E"} -> 14
      [] ch \in {"f", "F"} -> 15
      [] OTHER -> CHOOSE d \in 0..9 : LowerHexDigits[d + 1] = ch

\* QColor(name).rgb() for a name "#RRGGBB": the colour a pen of that name draws
QColorValue(name) ==
    HexDigitValue(name[2]) * Pow16(5) + HexDigitValue(name[3]) * Pow16(4)
    + HexDigitValue(name[4]) * Pow16(3) + HexDigitValue(name[5]) * Pow16(2)
    + HexDigitValue(name[6]) * Pow16(1) + HexDigitValue(name[7])

\* category in self.category_colors
HasColor(colors, category) ==
    \E i \in 1..Len(colors) : colors[i].category = category

\* self.category_colors[category]
ColorOf(colors, category) ==
    LET i == CHOOSE i \in 1..Len(colors) :
                 colors[i].category = category
    IN  colors[i].color

\* random.randint(0, 0xFFFFFF) draws n: the loop of get_color_for_category
\* keeps the name it formats unless the name equals "#FF0000"
RandomAccepted(n) == Format06x(n) # get_default_color

\* ColorManager.get_color_for_category: category_colors after the call, n
\* being the accepted draw of random.randint when the pool is used up.  The
\* value returned is ColorOf of the result.
get_color_for_category(colors, category, n) ==
    IF HasColor(colors, category) THEN colors
    ELSE IF Len(colors) < Len(color_pool)
         THEN Append(colors,
                     [category |-> category,
                      color |-> color_pool[Len(colors) + 1]])
         ELSE Append(colors,
                     [category |-> category, color |-> Format06x(n)])

----------------------------------------------------------------------------
(* AnnotationData and the XML records *)

\* AnnotationData.__init__
AnnotationData(x, y, width, height, category) ==
    [x |-> x, y |-> y, width |-> width, height |-> height, category |-> category]

\* A file <stem>.xml: whether it exists and its <object> elements, the part
\* load_annotations reads.  Its <filename> and <size> are written and never
\* read again; they are left out.
NoRecord == [exists |-> FALSE, objects |-> << >>]

EmptyDisk == [f \in Folders |-> [st \in Stems |-> NoRecord]]

\* the <object> element written for one annotation: name and bndbox
XmlObject(ann) ==
    [name |-> ann.category, xmin |-> ann.x, ymin |-> ann.y,
     xmax |-> ann.x + ann.width, ymax |-> ann.y + ann.height]

\* the loop over annotations in save_annotations: only those with a category
RECURSIVE XmlObjects(_)
XmlObjects(anns) ==
    IF anns = << >> THEN << >>
    ELSE IF Head(anns).category # ""
         THEN << XmlObject(Head(anns)) >> \o XmlObjects(Tail(anns))
         ELSE XmlObjects(Tail(anns))

\* AnnotationManager.save_annotations: the record <xml_dir>/<stem>.xml
save_annotations(disk, xml_dir, image_path, anns, image_size) ==
    [disk EXCEPT ![xml_dir][Stem(image_path.name)] =
        [exists |-> TRUE, objects |-> XmlObjects(anns)]]

\* the AnnotationData built from one <object> element
ObjectAnnotation(obj) ==
    AnnotationData(obj.xmin, obj.ymin, obj.xmax - obj.xmin, obj.ymax - obj.ymin,
                   obj.name)

\* AnnotationManager.load_annotations
load_annotations(disk, xml_dir, image_path) ==
    LET rec == disk[xml_dir][Stem(image_path.name)]
    IN  IF rec.exists
        THEN [i \in 1..Len(rec.objects) |-> ObjectAnnotation(rec.objects[i])]
        ELSE << >>

----------------------------------------------------------------------------
(* Qt value types: QPoint as <<x, y>>, QRect as a record, QSize as <<w, h>> *)

\* QPoint()
NullPoint == << 0, 0 >>

\* QPoint.isNull(): both coordinates are 0
isNull(p) == p[1] = 0 /\ p[2] = 0

\* QRect(): the null rectangle, which contains no point
NullRect == [x |-> 0, y |-> 0, width |-> 0, height |-> 0]

\* QRect.contains(QPoint): left <= x <= right and top <= y <= bottom, where
\* right = x + width - 1 and bottom = y + height - 1
contains(rect, p) ==
    /\ p[1] >= rect.x /\ p[1] <= rect.x + rect.width - 1
    /\ p[2] >= rect.y /\ p[2] <= rect.y + rect.height - 1

\* QRect(p1, p2).normalized(): the corners are swapped per axis when the
\* second lies more than one pixel before the first
normalized(p1, p2) ==
    LET x1 == IF p2[1] < p1[1] - 1 THEN p2[1] ELSE p1[1]
        x2 == IF p2[1] < p1[1] - 1 THEN p1[1] ELSE p2[1]
        y1 == IF p2[2] < p1[2] - 1 THEN p2[2] ELSE p1[2]
        y2 == IF p2[2] < p1[2] - 1 THEN p1[2] ELSE p2[2]
    IN  [x |-> x1, y |-> y1, width |-> x2 - x1 + 1, height |-> y2 - y1 + 1]

topLeft(rect) == << rect.x, rect.y >>
bottomRight(rect) == << rect.x + rect.width - 1, rect.y + rect.height - 1 >>

Max(a, b) == IF a >= b THEN a ELSE b
Min(a, b) == IF a <= b THEN a ELSE b
Abs(a) == IF a < 0 THEN 0 - a ELSE a

\* QPixmap.scaled(size, Qt.KeepAspectRatio): QSize.scaled() with integer
\* division, each side at least 1; a null pixmap scales to a null pixmap
ScaledSize(pix, target) ==
    IF pix[1] = 0 \/ pix[2] = 0 THEN << 0, 0 >>
    ELSE LET rw == (target[2] * pix[1]) \div pix[2]
         IN  IF rw <= target[1]
             THEN << Max(rw, 1), Max(target[2], 1) >>
             ELSE << Max(target[1], 1), Max((target[1] * pix[2]) \div pix[1], 1) >>

\* The triples (a, p, r), all at most 30, for which the double a * (p / r)
\* lies just below the integer a*p/r, so that int() yields one less.
FloatBelow ==
    { <<27, 13, 3>>, <<23, 13, 23>>, <<11, 15, 11>>, <<22, 15, 11>>,
      <<13, 15, 13>>, <<26, 15, 13>>, <<22, 15, 22>>, <<26, 15, 26>>,
      <<21, 17, 7>>, <<25, 23, 5>>, <<27, 26, 3>>, <<27, 26, 6>>,
      <<23, 26, 23>>, <<25, 29, 25>>, <<11, 30, 11>>, <<22, 30, 11>>,
      <<13, 30, 13>>, <<26, 30, 13>>, <<11, 30, 22>>, <<22, 30, 22>>,
      <<13, 30, 26>>, <<26, 30, 26>> }

\* int(a * scale) with scale = p / r computed in double precision
IntScaled(a, p, r) ==
    IF << a, p, r >> \in FloatBelow THEN (a * p) \div r - 1 ELSE (a * p) \div r

----------------------------------------------------------------------------
(* ImageCanvas *)

NoPixmap == [obj |-> FALSE, width |-> 0, height |-> 0]
NoScaledPixmap == [has |-> FALSE, width |-> 0, height |-> 0]

\* "if self.pixmap": None is false, every QPixmap object is true, the null
\* pixmap of an unreadable file included
PixmapTruthy(s) == s.pixmap.obj

\* QPixmap.isNull()
PixmapIsNull(s) == s.pixmap.width = 0 \/ s.pixmap.height = 0

\* ImageCanvas.scale_pixmap
scale_pixmap(s) ==
    IF PixmapTruthy(s)
    THEN LET sz == ScaledSize(<< s.pixmap.width, s.pixmap.height >>, s.size)
         IN  [s EXCEPT !.scaled_pixmap =
                 [has |-> TRUE, width |-> sz[1], height |-> sz[2]]]
    ELSE s

\* ImageCanvas.set_image: the state after it; it returned False iff the new
\* pixmap is null, and then scaled_pixmap is still the one of the image before
set_image(s, image_size) ==
    LET s1 == [s EXCEPT !.pixmap =
                  [obj |-> TRUE, width |-> image_size[1], height |-> image_size[2]]]
    IN  IF PixmapIsNull(s1) THEN s1 ELSE scale_pixmap(s1)

\* ImageCanvas.get_image_rect
get_image_rect(s) ==
    IF ~ s.scaled_pixmap.has THEN NullRect
    ELSE [x |-> (s.size[1] - s.scaled_pixmap.width) \div 2,
          y |-> (s.size[2] - s.scaled_pixmap.height) \div 2,
          width |-> s.scaled_pixmap.width,
          height |-> s.scaled_pixmap.height]

\* widget_to_image_coords without the offset of the image rectangle
widget_to_image_coords_NoOffset(s, widget_point) ==
    IF ~ PixmapTruthy(s) THEN NullPoint
    ELSE LET image_rect == get_image_rect(s)
         IN  IF ~ contains(image_rect, widget_point) THEN NullPoint
             ELSE << IntScaled(widget_point[1], s.pixmap.width, image_rect.width),
                     IntScaled(widget_point[2], s.pixmap.height, image_rect.height) >>

\* ImageCanvas.widget_to_image_coords
widget_to_image_coords(s, widget_point) ==
    IF ~ PixmapTruthy(s) THEN NullPoint
    ELSE LET image_rect == get_image_rect(s)
         IN  IF ~ contains(image_rect, widget_point) THEN NullPoint
             ELSE LET rel_x == widget_point[1] - image_rect.x
                      rel_y == widget_point[2] - image_rect.y
                  IN  << IntScaled(rel_x, s.pixmap.width, image_rect.width),
                         IntScaled(rel_y, s.pixmap.height, image_rect.height) >>

\* image_to_widget_coords divides by pixmap.width() and pixmap.height():
\* ZeroDivisionError for a pixmap object that is null
image_to_widget_raises(s) == PixmapTruthy(s) /\ PixmapIsNull(s)

\* ImageCanvas.image_to_widget_coords (where it does not raise)
image_to_widget_coords(s, image_point) ==
    IF ~ PixmapTruthy(s) THEN NullPoint
    ELSE LET image_rect == get_image_rect(s)
         IN  << IntScaled(image_point[1], image_rect.width, s.pixmap.width)
                    + image_rect.x,
                IntScaled(image_point[2], image_rect.height, s.pixmap.height)
                    + image_rect.y >>

\* ImageCanvas.mousePressEvent
mousePressEvent(s, button, pos) ==
    LET s1 == [s EXCEPT !.focus = "canvas", !.message = MsgNone]
    IN  IF button = "Left" /\ PixmapTruthy(s1)
        THEN IF s1.selected_category = ""
             THEN [s1 EXCEPT !.message = MsgSelectCategory]
             ELSE IF contains(get_image_rect(s1), pos)
                  THEN [s1 EXCEPT !.drawing = TRUE, !.start_point = pos]
                  ELSE s1
        ELSE s1

\* mouseReleaseEvent without its check that a category is selected
mouseReleaseEvent_NoCategoryCheck(s, button, pos) ==
    LET s0 == [s EXCEPT !.message = MsgNone]
    IN  IF button = "Left" /\ s0.drawing
        THEN LET s1 == [s0 EXCEPT !.drawing = FALSE]
                 rect == normalized(s1.start_point, pos)
                 start_img == widget_to_image_coords(s1, topLeft(rect))
                 end_img == widget_to_image_coords(s1, bottomRight(rect))
             IN  IF rect.width > MinBoxSize /\ rect.height > MinBoxSize
                    /\ ~ isNull(start_img) /\ ~ isNull(end_img)
                 THEN [s1 EXCEPT !.annotations = Append(@,
                          AnnotationData(Min(start_img[1], end_img[1]),
                                         Min(start_img[2], end_img[2]),
                                         Abs(end_img[1] - start_img[1]),
                                         Abs(end_img[2] - start_img[2]),
                                         s1.selected_category))]
                 ELSE s1
        ELSE s0

\* mouseReleaseEvent accepting a rectangle of exactly the minimum size
mouseReleaseEvent_NoMinSize(s, button, pos) ==
    LET s0 == [s EXCEPT !.message = MsgNone]
    IN  IF button = "Left" /\ s0.drawing
        THEN LET s1 == [s0 EXCEPT !.drawing = FALSE]
                 rect == normalized(s1.start_point, pos)
                 start_img == widget_to_image_coords(s1, topLeft(rect))
                 end_img == widget_to_image_coords(s1, bottomRight(rect))
             IN  IF s1.selected_category = "" THEN s1
                 ELSE IF rect.width >= MinBoxSize /\ rect.height >= MinBoxSize
                         /\ ~ isNull(start_img) /\ ~ isNull(end_img)
                      THEN [s1 EXCEPT !.annotations = Append(@,
                               AnnotationData(Min(start_img[1], end_img[1]),
                                              Min(start_img[2], end_img[2]),
                                              Abs(end_img[1] - start_img[1]),
                                              Abs(end_img[2] - start_img[2]),
                                              s1.selected_category))]
                      ELSE s1
        ELSE s0

\* ImageCanvas.mouseReleaseEvent
mouseReleaseEvent(s, button, pos) ==
    LET s0 == [s EXCEPT !.message = MsgNone]
    IN  IF button = "Left" /\ s0.drawing
        THEN LET s1 == [s0 EXCEPT !.drawing = FALSE]
                 rect == normalized(s1.start_point, pos)
                 start_img == widget_to_image_coords(s1, topLeft(rect))
                 end_img == widget_to_image_coords(s1, bottomRight(rect))
             IN  IF s1.selected_category = "" THEN s1
                 ELSE IF rect.width > MinBoxSize /\ rect.height > MinBoxSize
                         /\ ~ isNull(start_img) /\ ~ isNull(end_img)
                      THEN [s1 EXCEPT !.annotations = Append(@,
                               AnnotationData(Min(start_img[1], end_img[1]),
                                              Min(start_img[2], end_img[2]),
                                              Abs(end_img[1] - start_img[1]),
                                              Abs(end_img[2] - start_img[2]),
                                              s1.selected_category))]
                      ELSE s1
        ELSE s0

\* ImageCanvas.keyPressEvent, up to its call of QWidget.keyPressEvent (which
\* ignores the event, so that Qt hands it on to the parent widgets)
ImageCanvas_keyPressEvent(s, key) ==
    IF key = "Delete" /\ s.annotations # << >>
    THEN [s EXCEPT !.annotations = SubSeq(@, 1, Len(@) - 1)]
    ELSE s

\* ImageCanvas.resizeEvent
resizeEvent(s, new_size) ==
    LET s1 == [s EXCEPT !.size = new_size, !.message = MsgNone]
    IN  IF PixmapTruthy(s1) THEN scale_pixmap(s1) ELSE s1

\* ImageCanvas.paintEvent raises (ZeroDivisionError in draw_annotation) when
\* there is an annotation to draw over a null pixmap object
paintEvent_raises(s) == s.annotations # << >> /\ image_to_widget_raises(s)

\* the colour lookups of draw_annotation for the annotations anns, in order
RECURSIVE DrawnColors(_, _, _)
DrawnColors(colors, anns, n) ==
    IF anns = << >> THEN colors
    ELSE DrawnColors(IF Head(anns).category # ""
                     THEN get_color_for_category(colors,
                                                 Head(anns).category, n)
                     ELSE colors,
                     Tail(anns), n)

\* ImageCanvas.paintEvent when nothing raises: the annotations are drawn in
\* order, then the rectangle being dragged; each asks the colour manager
paintEvent(s, n) ==
    LET drawn == DrawnColors(s.category_colors, s.annotations, n)
    IN  [s EXCEPT !.category_colors =
            IF s.drawing /\ s.selected_category # ""
            THEN get_color_for_category(drawn, s.selected_category, n)
            ELSE drawn]

----------------------------------------------------------------------------
(* MainWindow *)

\* the file names of a set in sorted order (image_list.sort())
RECURSIVE SortedNames(_)
SortedNames(names) ==
    IF names = {} THEN << >>
    ELSE LET first == CHOOSE n \in names :
                          \A m \in names : NameRank(n) <= NameRank(m)
         IN  << first >> \o SortedNames(names \ {first})

\* import_folder: the image files of <folder>/img, sorted
ScanImages(folder) ==
    LET names == SortedNames({n \in ImgDir(folder) :
                                 SuffixLower(n) \in image_extensions})
    IN  [i \in 1..Len(names) |-> Path(folder, names[i])]

HasPreviousImagePath(s) == s.previous_image_path # NoPath

\* MainWindow.save_current_annotations
save_current_annotations(s) ==
    IF HasPreviousImagePath(s) /\ s.annotation_manager # "None" /\ PixmapTruthy(s)
    THEN [s EXCEPT !.xml = save_annotations(@, s.annotation_manager,
                               s.previous_image_path, s.annotations,
                               << s.pixmap.width, s.pixmap.height >>)]
    ELSE s

\* MainWindow.load_current_image (current_image_index counts from 0)
load_current_image(s) ==
    IF s.current_image_index < 0 \/ s.current_image_index >= Len(s.image_list)
    THEN s
    ELSE LET s1 == IF HasPreviousImagePath(s) /\ s.annotation_manager # "None"
                   THEN save_current_annotations(s) ELSE s
             image_path == s1.image_list[s1.current_image_index + 1]
             s2 == set_image(s1, ImageFileSize(image_path.folder, image_path.name))
         IN  IF PixmapIsNull(s2) THEN s2
             ELSE [s2 EXCEPT
                     !.annotations =
                         IF s2.annotation_manager # "None"
                         THEN load_annotations(s2.xml, s2.annotation_manager,
                                               image_path)
                         ELSE << >>,
                     !.drawing = FALSE,
                     !.previous_image_path = image_path]

\* MainWindow.update_navigation_buttons
update_navigation_buttons(s) ==
    LET has_images == Len(s.image_list) > 0
        is_first == s.current_image_index <= 0
        is_last == s.current_image_index >= Len(s.image_list) - 1
    IN  [s EXCEPT !.prev_enabled = has_images /\ ~ is_first,
                  !.next_enabled = has_images /\ ~ is_last,
                  !.finish_visible = has_images /\ is_last]

\* MainWindow.on_category_changed
on_category_changed(s, category) ==
    IF category = Placeholder
    THEN [s EXCEPT !.selected_category = ""]
    ELSE [s EXCEPT !.selected_category = category]

\* category_combo.clear(); addItem("(請選擇類別)"); addItems(items): the combo
\* ends on the placeholder, and currentTextChanged has called on_category_changed
ResetCombo(s, items) ==
    on_category_changed(
        [s EXCEPT !.combo_items = << Placeholder >> \o items,
                  !.combo_text = Placeholder],
        Placeholder)

\* MainWindow.import_folder; folder = "" when the dialog is cancelled
import_folder(s, folder) ==
    LET s0 == [s EXCEPT !.message = MsgNone]
    IN  IF folder = "" THEN s0
        ELSE IF ~ HasLabel(folder) THEN [s0 EXCEPT !.message = MsgNoLabel]
        ELSE IF ~ HasImg(folder) THEN [s0 EXCEPT !.message = MsgNoImg]
        ELSE IF ~ LabelReadable(folder)
             THEN [s0 EXCEPT !.message = MsgLabelUnreadable]
        ELSE LET s1 == ResetCombo([s0 EXCEPT !.categories = LabelLines(folder)],
                                  LabelLines(folder))
                 s2 == [s1 EXCEPT !.image_list = ScanImages(folder)]
             IN  IF s2.image_list = << >>
                 THEN [s2 EXCEPT !.message = MsgNoImages]
                 ELSE LET s3 == [s2 EXCEPT !.annotation_manager = folder,
                                           !.current_image_index = 0]
                      IN  [update_navigation_buttons(load_current_image(s3))
                              EXCEPT !.message = MsgImported]

\* MainWindow.prev_image
prev_image(s) ==
    LET s0 == [s EXCEPT !.message = MsgNone]
    IN  IF s0.current_image_index > 0
        THEN update_navigation_buttons(load_current_image(
                 [s0 EXCEPT !.current_image_index = @ - 1]))
        ELSE s0

\* MainWindow.next_image
next_image(s) ==
    LET s0 == [s EXCEPT !.message = MsgNone]
    IN  IF s0.current_image_index < Len(s0.image_list) - 1
        THEN update_navigation_buttons(load_current_image(
                 [s0 EXCEPT !.current_image_index = @ + 1]))
        ELSE s0

\* MainWindow.keyPressEvent
MainWindow_keyPressEvent(s, key) ==
    IF key = "Delete" THEN ImageCanvas_keyPressEvent(s, key) ELSE s

\* MainWindow.reset_to_initial_state
reset_to_initial_state(s) ==
    [ResetCombo(s, << >>) EXCEPT
        !.annotation_manager = "None",
        !.categories = << >>,
        !.image_list = << >>,
        !.current_image_index = -1,
        !.pixmap = NoPixmap,
        !.scaled_pixmap = NoScaledPixmap,
        !.annotations = << >>,
        !.drawing = FALSE,
        !.selected_category = "",
        !.prev_enabled = FALSE,
        !.next_enabled = FALSE,
        !.finish_visible = FALSE,
        !.previous_image_path = NoPath]

\* MainWindow.finish_annotation
finish_annotation(s) ==
    LET s1 == IF HasPreviousImagePath(s) /\ s.annotation_manager # "None"
              THEN save_current_annotations(s) ELSE s
        s2 == [s1 EXCEPT !.message =
                  IF s1.annotation_manager # "None" THEN MsgFinished ELSE MsgNone]
    IN  reset_to_initial_state(s2)

\* MainWindow.closeEvent
closeEvent(s) ==
    LET s1 == IF HasPreviousImagePath(s) /\ s.annotation_manager # "None"
              THEN save_current_annotations(s) ELSE s
    IN  [s1 EXCEPT !.message = MsgNone]

\* MainWindow.__init__ and ImageCanvas.__init__, for a canvas of a given size
InitialState(canvas_size) ==
    [app |-> "running", focus |-> "canvas", message |-> MsgNone,
     annotation_manager |-> "None", categories |-> << >>, image_list |-> << >>,
     current_image_index |-> -1, previous_image_path |-> NoPath,
     combo_items |-> << >>, combo_text |-> "",
     prev_enabled |-> FALSE, next_enabled |-> FALSE, finish_visible |-> FALSE,
     pixmap |-> NoPixmap, scaled_pixmap |-> NoScaledPixmap, size |-> canvas_size,
     annotations |-> << >>, drawing |-> FALSE, start_point |-> NullPoint,
     selected_category |-> "", category_colors |-> NoCategoryColors,
     xml |-> EmptyDisk]

----------------------------------------------------------------------------
(* The state machine *)

\* the program state as one record
State ==
    [app |-> app, focus |-> focus, message |-> message,
     annotation_manager |-> annotation_manager, categories |-> categories,
     image_list |-> image_list, current_image_index |-> current_image_index,
     previous_image_path |-> previous_image_path,
     combo_items |-> combo_items, combo_text |-> combo_text,
     prev_enabled |-> prev_enabled, next_enabled |-> next_enabled,
     finish_visible |-> finish_visible,
     pixmap |-> pixmap, scaled_pixmap |-> scaled_pixmap, size |-> size,
     annotations |-> annotations, drawing |-> drawing,
     start_point |-> start_point, selected_category |-> selected_category,
     category_colors |-> category_colors, xml |-> xml]

\* the program's variables take the values of the record t
Assign(t) ==
    /\ app' = t.app /\ focus' = t.focus /\ message' = t.message
    /\ annotation_manager' = t.annotation_manager
    /\ categories' = t.categories
    /\ image_list' = t.image_list
    /\ current_image_index' = t.current_image_index
    /\ previous_image_path' = t.previous_image_path
    /\ combo_items' = t.combo_items /\ combo_text' = t.combo_text
    /\ prev_enabled' = t.prev_enabled /\ next_enabled' = t.next_enabled
    /\ finish_visible' = t.finish_visible
    /\ pixmap' = t.pixmap /\ scaled_pixmap' = t.scaled_pixmap /\ size' = t.size
    /\ annotations' = t.annotations /\ drawing' = t.drawing
    /\ start_point' = t.start_point
    /\ selected_category' = t.selected_category
    /\ category_colors' = t.category_colors
    /\ xml' = t.xml

NoBookmark == [set |-> FALSE, index |-> -1, anns |-> << >>]

\* a handler's step: the program's state becomes t
Becomes(t) == Assign(t) /\ UNCHANGED bookmark

Starts(t) ==
    /\ app = t.app /\ focus = t.focus /\ message = t.message
    /\ annotation_manager = t.annotation_manager
    /\ categories = t.categories
    /\ image_list = t.image_list
    /\ current_image_index = t.current_image_index
    /\ previous_image_path = t.previous_image_path
    /\ combo_items = t.combo_items /\ combo_text = t.combo_text
    /\ prev_enabled = t.prev_enabled /\ next_enabled = t.next_enabled
    /\ finish_visible = t.finish_visible
    /\ pixmap = t.pixmap /\ scaled_pixmap = t.scaled_pixmap /\ size = t.size
    /\ annotations = t.annotations /\ drawing = t.drawing
    /\ start_point = t.start_point
    /\ selected_category = t.selected_category
    /\ category_colors = t.category_colors
    /\ xml = t.xml
    /\ bookmark = NoBookmark

----------------------------------------------------------------------------
(* Inputs *)

MouseButtons == {"Left", "Right"}
Keys == {"Delete", "Other"}

\* the canvas size of a session (the image is shown at x 1..14, y 0..11), and
\* the mouse positions tried in it.  Presses: a point outside the displayed
\* image, the image's top-left corner, a point inside.  Releases: the same
\* inside point, a point 10 rows below it, the image's bottom-right corner
\* (11 rows below it), a point right of the image.
SessionCanvasSize == << 16, 12 >>
SessionPressPoints == { << 0, 0 >>, << 1, 0 >>, << 3, 1 >> }
SessionReleasePoints == { << 3, 1 >>, << 14, 10 >>, << 14, 11 >>, << 15, 11 >> }

\* the canvas sizes and mouse positions of the coordinate check
CoordCanvasSizes == { << 14, 13 >>, << 22, 12 >> }
AllPoints(canvas_size) ==
    (0 .. canvas_size[1] - 1) \X (0 .. canvas_size[2] - 1)

\* the widget with the keyboard focus after a click on a button or on the
\* combo box: the widget clicked
FocusAfterClick == {"other"}

\* values random.randint(0, 0xFFFFFF) can return: 0, 0x3498DB (a pool colour),
\* 0xFEFFFF, 0xFF0000 (pure red), 0xFF0001, 0xFFFFFF
RandomInts == { 0, 3447003, 16711679, 16711680, 16711681, 16777215 }

\* the categories asked of the colour manager: those it has seen and one it
\* has not, named by its number
ColorCategories(colors) ==
    { colors[i].category : i \in 1..Len(colors) } \cup { ToString(Len(colors) + 1) }

\* the accepted draws a repaint can consume: random.randint is called only
\* when a category without a colour meets a used-up pool
PaintDraws(s) ==
    IF Len(s.category_colors) + Len(s.annotations) + 1 > Len(color_pool)
    THEN { n \in RandomInts : RandomAccepted(n) }
    ELSE { 0 }

\* the program has ended: its memory is gone, the disk remains
Exited(s, how) == [InitialState(s.size) EXCEPT !.app = how, !.xml = s.xml]

\* the operator picks an entry of category_combo: currentTextChanged
combo_activated(s, text) ==
    on_category_changed([s EXCEPT !.combo_text = text, !.message = MsgNone], text)

\* Qt's delivery of a key press: to the focus widget first, then up the parent
\* chain while the event is ignored.  The canvas handler ends in
\* QWidget.keyPressEvent, which ignores the event, so the window's handler runs
\* after it; a button ignores Delete, so the window's handler runs alone.
deliver_key(s, key) ==
    LET s0 == [s EXCEPT !.message = MsgNone]
    IN  IF s0.focus = "canvas"
        THEN MainWindow_keyPressEvent(ImageCanvas_keyPressEvent(s0, key), key)
        ELSE MainWindow_keyPressEvent(s0, key)

----------------------------------------------------------------------------
(* Actions *)

\* a click on Import: the dialog is cancelled or one of the folders is chosen
ImportFrom(folders) ==
    /\ app = "running"
    /\ \E folder \in folders \cup {""}, fo \in FocusAfterClick :
           Becomes([import_folder(State, folder) EXCEPT !.focus = fo])

ImportFolder == ImportFrom(SessionFolders)

PrevImage ==
    /\ app = "running" /\ prev_enabled
    /\ \E fo \in FocusAfterClick :
           Becomes([prev_image(State) EXCEPT !.focus = fo])

NextImage ==
    /\ app = "running" /\ next_enabled
    /\ \E fo \in FocusAfterClick :
           Becomes([next_image(State) EXCEPT !.focus = fo])

FinishAnnotation ==
    /\ app = "running" /\ finish_visible
    /\ \E fo \in FocusAfterClick :
           Becomes([finish_annotation(State) EXCEPT !.focus = fo])

SelectCategory ==
    /\ app = "running"
    /\ \E i \in 1..Len(combo_items), fo \in FocusAfterClick :
           /\ combo_items[i] # combo_text
           /\ Becomes([combo_activated(State, combo_items[i]) EXCEPT !.focus = fo])

MousePress(points) ==
    /\ app = "running"
    /\ \E button \in MouseButtons, pos \in points :
           Becomes(mousePressEvent(State, button, pos))

MouseRelease(points) ==
    /\ app = "running"
    /\ \E button \in MouseButtons, pos \in points :
           LET t == mouseReleaseEvent(State, button, pos)
           IN  /\ Len(t.annotations) <= MaxAnnotations
               /\ Becomes(t)

KeyPressed(key) ==
    /\ app = "running"
    /\ Becomes(deliver_key(State, key))

KeyPress == \E key \in Keys : KeyPressed(key)

Resize(sizes) ==
    /\ app = "running"
    /\ \E new_size \in sizes \ {size} : Becomes(resizeEvent(State, new_size))

\* a repaint; an exception in paintEvent either ends the program (qFatal,
\* PyQt5 5.5 and later) or is printed and ignored (earlier versions)
PaintEvent ==
    /\ app = "running"
    /\ IF paintEvent_raises(State)
       THEN \/ Becomes(Exited(State, "aborted"))
            \/ Becomes(State)
       ELSE \E n \in PaintDraws(State) : Becomes(paintEvent(State, n))

CloseWindow ==
    /\ app = "running"
    /\ Becomes(Exited(closeEvent(State), "closed"))

\* one call color_manager.get_color_for_category(category), for a category
\* that has a colour or for the next new one
GetColor ==
    /\ app = "running"
    /\ \E category \in ColorCategories(category_colors),
          n \in { m \in RandomInts : RandomAccepted(m) } :
           LET colors == get_color_for_category(category_colors, category, n)
           IN  /\ Len(colors) <= MaxCategories
               /\ Becomes([State EXCEPT !.category_colors = colors])

----------------------------------------------------------------------------
(* Spec: a session. The window is opened with an empty disk and the operator *)
(* imports folders, navigates, selects categories, draws, deletes, finishes  *)
(* and closes.  Repaints, which change only the colour manager or end the    *)
(* program, are the subject of SpecColorManager.                             *)

Init == Starts(InitialState(SessionCanvasSize))

Next ==
    \/ ImportFolder
    \/ PrevImage
    \/ NextImage
    \/ FinishAnnotation
    \/ SelectCategory
    \/ MousePress(SessionPressPoints)
    \/ MouseRelease(SessionReleasePoints)
    \/ KeyPress
    \/ CloseWindow

Spec == Init /\ [][Next]_vars

----------------------------------------------------------------------------
(* SpecColorManager: the colour manager.  The canvas is either in the middle *)
(* of a drag on a displayed image, or on an image that could not be          *)
(* displayed with a box left on it; it is repainted, and colours are asked   *)
(* for a growing number of categories.                                       *)

\* folder S1 imported, "cat" selected, the left button pressed inside the image
DragUnderWay ==
    mousePressEvent(
        combo_activated(import_folder(InitialState(SessionCanvasSize), "S1"), "cat"),
        "Left", << 3, 1 >>)

\* folder F imported, a "cat" box drawn on a.png, then Next onto d.JPG
BoxOnNullPixmap ==
    next_image(
        mouseReleaseEvent(
            mousePressEvent(
                combo_activated(
                    next_image(import_folder(InitialState(SessionCanvasSize), "F")),
                    "cat"),
                "Left", << 3, 1 >>),
            "Left", << 14, 11 >>))

InitColorManager == Starts(DragUnderWay) \/ Starts(BoxOnNullPixmap)

NextColorManager ==
    \/ GetColor
    \/ PaintEvent

SpecColorManager == InitColorManager /\ [][NextColorManager]_vars

----------------------------------------------------------------------------
(* SpecFolders: sessions over two folders that both hold images: F (a.jpg,   *)
(* a.png and the unreadable d.JPG) and S1 (a.jpg alone, so that Finish is    *)
(* offered on an image that is displayed).                                   *)

ImageFolders == {"F", "S1"}
FoldersPressPoints == { << 3, 1 >> }
FoldersReleasePoints == { << 14, 11 >> }

NextFolders ==
    \/ ImportFrom(ImageFolders)
    \/ PrevImage
    \/ NextImage
    \/ FinishAnnotation
    \/ SelectCategory
    \/ MousePress(FoldersPressPoints)
    \/ MouseRelease(FoldersReleasePoints)
    \/ CloseWindow

SpecFolders == Init /\ [][NextFolders]_vars

----------------------------------------------------------------------------
(* SpecCoords: the coordinate transforms.  One image of each size is shown   *)
(* on a canvas of each size (the state after importing a one-image folder    *)
(* and selecting its category); the mouse is pressed at every point of the   *)
(* canvas and the canvas is resized.                                         *)

InitCoords ==
    \E folder \in CoordFolders, canvas_size \in CoordCanvasSizes :
        Starts(combo_activated(import_folder(InitialState(canvas_size), folder),
                               "cat"))

NextCoords ==
    \/ MousePress(AllPoints(size))
    \/ Resize(CoordCanvasSizes)

SpecCoords == InitCoords /\ [][NextCoords]_vars

----------------------------------------------------------------------------
(* SpecRoundTrip: navigation inside the loaded folder F, with a bookmark.    *)
(* When an image is left, the step may note its index and what the canvas    *)
(* held; the note is dropped when that image becomes the current one again.  *)

RoundTripPressPoints == { << 3, 1 >> }
RoundTripReleasePoints == { << 14, 11 >> }

\* a Previous/Next step to the state t, keeping the bookmark up to date
Navigate(t) ==
    /\ Assign(t)
    /\ IF t.current_image_index = current_image_index THEN UNCHANGED bookmark
       ELSE IF bookmark.set
            THEN bookmark' = IF t.current_image_index = bookmark.index
                             THEN NoBookmark ELSE bookmark
            ELSE \/ UNCHANGED bookmark
                 \/ bookmark' = [set |-> TRUE, index |-> current_image_index,
                                 anns |-> annotations]

PrevImageMarked ==
    /\ app = "running" /\ prev_enabled
    /\ \E fo \in FocusAfterClick :
           Navigate([prev_image(State) EXCEPT !.focus = fo])

NextImageMarked ==
    /\ app = "running" /\ next_enabled
    /\ \E fo \in FocusAfterClick :
           Navigate([next_image(State) EXCEPT !.focus = fo])

InitRoundTrip ==
    Starts(import_folder(InitialState(SessionCanvasSize), "F"))

NextRoundTrip ==
    \/ PrevImageMarked
    \/ NextImageMarked
    \/ SelectCategory
    \/ MousePress(RoundTripPressPoints)
    \/ MouseRelease(RoundTripReleasePoints)
    \/ KeyPress

SpecRoundTrip == InitRoundTrip /\ [][NextRoundTrip]_vars

----------------------------------------------------------------------------
(* Properties *)

IndexValid ==
    current_image_index >= 0 /\ current_image_index < Len(image_list)

\* the image at the current index
CurrentImage == image_list[current_image_index + 1]

\* the image at the current index is the one the canvas shows
CurrentDisplayed == IndexValid /\ previous_image_path = CurrentImage

\* a click on Previous or Next that changes the current image
NavStep ==
    /\ PrevImage \/ NextImage
    /\ IndexValid
    /\ annotation_manager # "None"
    /\ current_image_index' # current_image_index

Range(seq) == { seq[i] : i \in 1..Len(seq) }

\* C1: auto-save on navigation. After every Previous/Next step that changes
\* the current image, the record of the image just left exists and holds
\* exactly the annotations the canvas held when the step was taken.
C1_AutoSaveOnNavigation ==
    [][ NavStep =>
          /\ xml'[annotation_manager][Stem(CurrentImage.name)].exists
          /\ load_annotations(xml', annotation_manager, CurrentImage) = annotations
      ]_vars

\* C3: records are per image. A step that saves the annotations of the image
\* shown (A) changes the annotations loaded for no other image B of the
\* folder, files that differ from A only in their extension included.
C3_RecordsPerImage ==
    [][ (annotation_manager # "None" /\ HasPreviousImagePath(State)) =>
          \A i \in 1..Len(image_list) :
              image_list[i] # previous_image_path =>
                  load_annotations(xml', annotation_manager, image_list[i])
                      = load_annotations(xml, annotation_manager, image_list[i])
      ]_vars

\* a mouse press / release of the session
PressStep == MousePress(SessionPressPoints)
ReleaseStep == MouseRelease(SessionReleasePoints)

\* C4: a category must be selected to annotate. A mouse press with no
\* category selected starts no drag and adds nothing; a release with no
\* category selected adds nothing; and whenever a mouse step changes the
\* annotation list it appends one annotation carrying the selected,
\* non-empty category.
C4_CategoryRequired ==
    [][ /\ (PressStep /\ selected_category = "") =>
               /\ drawing' = drawing
               /\ start_point' = start_point
               /\ annotations' = annotations
        /\ (ReleaseStep /\ selected_category = "") => annotations' = annotations
        /\ ((PressStep \/ ReleaseStep) /\ annotations' # annotations) =>
               /\ selected_category # ""
               /\ Len(annotations') = Len(annotations) + 1
               /\ SubSeq(annotations', 1, Len(annotations)) = annotations
               /\ annotations'[Len(annotations')].category = selected_category
      ]_vars

\* C4's case: a press without a category has just raised the warning, on a
\* canvas that already holds an annotation carrying a category
C4_Witness ==
    /\ message = MsgSelectCategory
    /\ selected_category = ""
    /\ ~ drawing
    /\ annotations # << >>
    /\ \A i \in 1..Len(annotations) : annotations[i].category # ""

\* C5: one press of the Delete key removes exactly the last annotation of the
\* canvas and leaves the others as they were; on an empty canvas it changes
\* nothing.
C5_DeleteRemovesLast ==
    [][ KeyPressed("Delete") =>
          annotations' = IF annotations = << >> THEN << >>
                         ELSE SubSeq(annotations, 1, Len(annotations) - 1)
      ]_vars

\* C6: switching images clears the boxes of the image before. After every
\* Previous/Next step that changes the current image, the canvas holds the
\* annotations stored for the new current image and nothing else.
C6_SwitchClearsBoxes ==
    [][ NavStep =>
          annotations' = load_annotations(xml', annotation_manager',
                                          image_list'[current_image_index' + 1])
      ]_vars

\* the image is displayed and p lies inside its rectangle on the canvas
InsideImage(p) ==
    PixmapTruthy(State) /\ ~ PixmapIsNull(State) /\ contains(get_image_rect(State), p)

\* C7: drawing a box records it. A release of the left button that ends a
\* drag which started and ends inside the displayed image, with a category
\* selected and a rectangle of more than 10 pixels each way, appends exactly
\* one annotation with the selected category.
C7_DragAddsAnnotation ==
    [][ \A pos \in SessionReleasePoints :
          ( /\ app = "running" /\ drawing /\ selected_category # ""
            /\ Len(annotations) < MaxAnnotations
            /\ InsideImage(start_point) /\ InsideImage(pos)
            /\ normalized(start_point, pos).width > MinBoxSize
            /\ normalized(start_point, pos).height > MinBoxSize
            /\ Becomes(mouseReleaseEvent(State, "Left", pos)) )
          => /\ Len(annotations') = Len(annotations) + 1
             /\ SubSeq(annotations', 1, Len(annotations)) = annotations
             /\ annotations'[Len(annotations')].category = selected_category
      ]_vars

\* C8: categories come from the fixed list. Every annotation on the canvas
\* carries a category of the current category list.
C8_CategoriesFromList ==
    \A i \in 1..Len(annotations) : annotations[i].category \in Range(categories)

\* the canvas has no loaded image: no pixmap, or the null pixmap of a file
\* that could not be displayed
NoLoadedImage == ~ PixmapTruthy(State) \/ PixmapIsNull(State)

\* C10: the image must be loaded before any transform is attempted. While the
\* canvas has no loaded image, there are no annotations, no drag is under way,
\* a mouse press starts none, and both coordinate mappings return the null
\* point.
C10_NoImageNoTransform ==
    NoLoadedImage =>
        /\ annotations = << >>
        /\ ~ drawing
        /\ \A pos \in SessionPressPoints :
               /\ ~ mousePressEvent(State, "Left", pos).drawing
               /\ widget_to_image_coords(State, pos) = NullPoint
               /\ ~ image_to_widget_raises(State)
               /\ image_to_widget_coords(State, pos) = NullPoint

\* C2: navigation round trip. When a Previous/Next step makes an image
\* current again that was left earlier, the canvas holds exactly the
\* annotations, in the same order, that it held when the image was left.
C2_NavigationRoundTrip ==
    [][ ( /\ bookmark.set
          /\ current_image_index' # current_image_index
          /\ current_image_index' = bookmark.index )
        => annotations' = bookmark.anns
      ]_vars

\* the points of the displayed image rectangle, and the pixels of the image
RectPoints == { p \in AllPoints(size) : contains(get_image_rect(State), p) }
ImagePixels == (0 .. pixmap.width - 1) \X (0 .. pixmap.height - 1)

\* the canvas to image to canvas, and the image to canvas to image, round trip
WidgetRoundTrip(p) ==
    image_to_widget_coords(State, widget_to_image_coords(State, p))
ImageRoundTrip(q) ==
    widget_to_image_coords(State, image_to_widget_coords(State, q))

\* the image is displayed at its own size (scale 1 on both axes)
ScaleOne ==
    /\ get_image_rect(State).width = pixmap.width
    /\ get_image_rect(State).height = pixmap.height

\* C9 as stated: the coordinate transform is fully reversible. Once a press
\* inside the displayed image has started a drag, for every
\* point p inside the displayed image rectangle the round trip through image
\* coordinates returns p, and for every image pixel q the round trip through
\* canvas coordinates returns q.
C9_TransformReversible ==
    drawing =>
        /\ \A p \in RectPoints : WidgetRoundTrip(p) = p
        /\ \A q \in ImagePixels : ImageRoundTrip(q) = q

\* C9 as amended: once a press inside the displayed image has started a drag,
\* both round trips return the point they started from when
\* the image is displayed at its own size; at any other scale the coordinates
\* are cut to integers, and a round trip moves a point left or up or not at
\* all, never right or down, and never out of the image.
C9_ReversibleAtScaleOne ==
    drawing =>
        /\ ScaleOne => /\ \A p \in RectPoints : WidgetRoundTrip(p) = p
                       /\ \A q \in ImagePixels : ImageRoundTrip(q) = q
        /\ \A p \in RectPoints :
               /\ WidgetRoundTrip(p) \in RectPoints
               /\ WidgetRoundTrip(p)[1] <= p[1] /\ WidgetRoundTrip(p)[2] <= p[2]
        /\ \A q \in ImagePixels :
               /\ ImageRoundTrip(q) \in ImagePixels
               /\ ImageRoundTrip(q)[1] <= q[1] /\ ImageRoundTrip(q)[2] <= q[2]

\* C9's case: an image shown at its own size, beside the canvas's left edge,
\* and a press inside it whose position is not the image's corner
C9_Witness ==
    /\ drawing
    /\ ScaleOne
    /\ get_image_rect(State).x > 0
    /\ InsideImage(start_point)
    /\ ~ isNull(widget_to_image_coords(State, start_point))

\* C14: category colours exclude pure red.  After every call of the colour
\* manager (while the program runs), no category has a colour that draws as
\* the pure red FF0000 of get_default_color, and every category that had a
\* colour keeps it.
C14_ColoursExcludePureRed ==
    [][ app' = "running" =>
          /\ \A i \in 1..Len(category_colors') :
                 QColorValue(category_colors'[i].color)
                     # QColorValue(get_default_color)
          /\ Len(category_colors') >= Len(category_colors)
          /\ SubSeq(category_colors', 1, Len(category_colors)) = category_colors
      ]_vars

\* the normalised rectangle of a drag to pos is 10 pixels or less one way
SmallDrag(pos) ==
    \/ normalized(start_point, pos).width <= MinBoxSize
    \/ normalized(start_point, pos).height <= MinBoxSize

\* C15: minimum box size.  A release of the left button that ends a drag
\* whose normalised rectangle is 10 pixels or less in width or in height
\* leaves the annotation list as it was and ends the drag.
C15_MinimumBoxSize ==
    [][ \A pos \in SessionReleasePoints :
          ( /\ app = "running" /\ drawing /\ SmallDrag(pos)
            /\ Becomes(mouseReleaseEvent(State, "Left", pos)) )
          => /\ annotations' = annotations
             /\ ~ drawing'
      ]_vars

\* C15's case: with a category selected, a drag that started inside the
\* displayed image at (3,1) has ended and the canvas holds no annotation;
\* nothing was saved or deleted since the import
C15_Witness ==
    /\ app = "running" /\ ~ drawing /\ selected_category # ""
    /\ start_point = << 3, 1 >> /\ InsideImage(start_point)
    /\ \E pos \in SessionReleasePoints : SmallDrag(pos) /\ InsideImage(pos)
    /\ annotations = << >>
    /\ focus = "canvas"
    /\ xml = EmptyDisk

\* the state the window is constructed in, as far as C11 lists it
ReInitialised(s) ==
    /\ s.annotation_manager = "None"
    /\ s.categories = << >>
    /\ s.image_list = << >>
    /\ s.current_image_index = -1
    /\ s.pixmap = NoPixmap
    /\ s.annotations = << >>
    /\ ~ s.drawing
    /\ s.selected_category = ""
    /\ ~ s.prev_enabled /\ ~ s.next_enabled /\ ~ s.finish_visible
    /\ ~ HasPreviousImagePath(s)

\* C11: Finish saves and re-initialises.  A click on Finish writes what the
\* canvas holds to the record of the current image, leaves the program in
\* its initial state, and a close or an import right after it writes nothing
\* more.
C11_FinishSavesAndResets ==
    [][ FinishAnnotation =>
          /\ (annotation_manager # "None" /\ IndexValid) =>
                 /\ xml'[annotation_manager][Stem(CurrentImage.name)].exists
                 /\ load_annotations(xml', annotation_manager, CurrentImage)
                        = annotations
          /\ ReInitialised(State')
          /\ closeEvent(State').xml = xml'
          /\ \A folder \in ImageFolders : import_folder(State', folder).xml = xml'
      ]_vars

\* C12: close saves.  Closing the window while a folder is loaded writes what
\* the canvas holds to the record of the current image.
C12_CloseSaves ==
    [][ (CloseWindow /\ annotation_manager # "None" /\ IndexValid) =>
          /\ xml'[annotation_manager][Stem(CurrentImage.name)].exists
          /\ load_annotations(xml', annotation_manager, CurrentImage) = annotations
      ]_vars

\* C13: navigation controls track the position.  Previous is enabled iff
\* images are loaded and the current image is not the first, Next iff images
\* are loaded and the current image is not the last, and Finish is visible
\* iff images are loaded and the current image is the last.
C13_NavigationControls ==
    app = "running" =>
        /\ prev_enabled <=> (image_list # << >> /\ current_image_index > 0)
        /\ next_enabled <=>
               (image_list # << >> /\ current_image_index < Len(image_list) - 1)
        /\ finish_visible <=>
               (image_list # << >> /\ current_image_index = Len(image_list) - 1)

\* an import step that ends with an error message or is cancelled
FailedImport ==
    /\ ImportFolder
    /\ message' \in {MsgNone, MsgNoLabel, MsgNoImg, MsgLabelUnreadable, MsgNoImages}

\* C17: a failed import leaves the session as it was.  When an import ends
\* with an error or is cancelled, the category list, the category selector,
\* the image list, the current index, the annotation manager, the canvas
\* image and its annotations are unchanged.
C17_FailedImportChangesNothing ==
    [][ FailedImport =>
          /\ categories' = categories
          /\ combo_items' = combo_items /\ combo_text' = combo_text
          /\ selected_category' = selected_category
          /\ image_list' = image_list
          /\ current_image_index' = current_image_index
          /\ annotation_manager' = annotation_manager
          /\ pixmap' = pixmap /\ scaled_pixmap' = scaled_pixmap
          /\ annotations' = annotations
      ]_vars

\* C18: index validity.  The current index is -1 when the image list is
\* empty and otherwise a position of the list.
C18_IndexValidity ==
    IF image_list = << >> THEN current_image_index = -1 ELSE IndexValid

\* C16: annotations are written only into the xml directory of the folder
\* their image belongs to.  A step changes the records of a folder only when
\* the image it saves (the one shown) is an image of that folder; and an
\* import of another folder saves what the canvas holds under the folder of
\* the image shown.
C16_OwnXmlDirectory ==
    [][ /\ \A g \in Folders :
               xml'[g] # xml[g] => previous_image_path.folder = g
        /\ ( /\ ImportFrom(ImageFolders)
             /\ annotation_manager # "None" /\ HasPreviousImagePath(State)
             /\ annotation_manager' # annotation_manager )
           => load_annotations(xml', previous_image_path.folder,
                               previous_image_path) = annotations
      ]_vars

====
